---- MODULE Spec2Model ----
(***************************************************************************)
(* A model of aibot.py: the interactive loop of flow_conversation, the     *)
(* bounded retry of process_message, start_new_conversation, the two input *)
(* readers and main.  Strings are sequences of one-character strings so    *)
(* that str.strip, str.lower, str.upper and str.join are computed.         *)
(***************************************************************************)
EXTENDS Integers, Sequences, FiniteSets, TLC

VARIABLES pc, conversation_started, multiline_mode, message, lines, retries,
          attempt, results, trace, outcome, from_multiline, response,
          new_sends, ml_captures, term, raw, start_result

vars == <<pc, conversation_started, multiline_mode, message, lines, retries,
          attempt, results, trace, outcome, from_multiline, response,
          new_sends, ml_captures, term, raw, start_result>>

(* ---------------- bounds ---------------- *)
\* largest value of the retries parameter of flow_conversation explored
MaxRetries == 3
\* most lines accumulated by one get_multiline_message call
MaxLines == 3
\* the counters new_sends and ml_captures saturate here
CountCap == 2

(* ---------------- characters and strings ---------------- *)
LowerChars == <<"a","c","d","e","h","i","l","m","n","o","s","t","u","w","x","y">>
UpperChars == <<"A","C","D","E","H","I","L","M","N","O","S","T","U","W","X","Y">>

IsSpace(c) == c \in {" ", "\t", "\n"}

ToLower(c) ==
  IF \E i \in 1..Len(UpperChars) : UpperChars[i] = c
  THEN LowerChars[CHOOSE i \in 1..Len(UpperChars) : UpperChars[i] = c]
  ELSE c

ToUpper(c) ==
  IF \E i \in 1..Len(LowerChars) : LowerChars[i] = c
  THEN UpperChars[CHOOSE i \in 1..Len(LowerChars) : LowerChars[i] = c]
  ELSE c

lower(s) == [i \in 1..Len(s) |-> ToLower(s[i])]
upper(s) == [i \in 1..Len(s) |-> ToUpper(s[i])]

RECURSIVE LStrip(_)
LStrip(s) == IF s # <<>> /\ IsSpace(Head(s)) THEN LStrip(Tail(s)) ELSE s

RECURSIVE RStrip(_)
RStrip(s) == IF s # <<>> /\ IsSpace(s[Len(s)])
             THEN RStrip(SubSeq(s, 1, Len(s) - 1)) ELSE s

\* rstrip forgotten: only the left edge is trimmed
StripLeftOnly(s) == LStrip(s)

strip(s) == RStrip(LStrip(s))

RECURSIVE join(_)
join(ls) == IF ls = <<>> THEN <<>>
            ELSE IF Len(ls) = 1 THEN ls[1]
            ELSE ls[1] \o <<"\n">> \o join(Tail(ls))

ExitToken      == <<"e","x","i","t">>
NewChatToken   == <<"n","e","w","c","h","a","t">>
MultilineToken == <<"m","u","l","t","i","l","i","n","e">>
YesToken       == <<"y","e","s">>
EndToken       == <<"E","N","D">>

\* the raw lines the input source may produce
Lines ==
  { <<>>,
    <<" ">>,
    <<"e","x","i","t">>,
    <<" ","E","X","I","T">>,
    <<"N","e","w","C","h","a","t">>,
    <<"m","u","l","t","i","l","i","n","e">>,
    <<"M","u","l","t","i","L","i","n","e"," ">>,
    <<"y","e","s">>,
    <<"Y","E","S"," ">>,
    <<"n","o">>,
    <<"y">>,
    <<"E","N","D">>,
    <<" ","e","n","d">>,
    <<" ","h"," ","i"," ">> }

\* the raw lines explored as the body of a multiline block (a line of this set
\* is accumulated when get_multiline_message does not take it for the sentinel)
BodyLines ==
  { <<>>,
    <<" ">>,
    <<"e","x","i","t">>,
    <<"N","e","w","C","h","a","t">>,
    <<"m","u","l","t","i","l","i","n","e">>,
    <<" ","e","n","d">>,
    <<" ","h"," ","i"," ">> }

\* what one api.prompt call may do
SendResults == {"Reply", "NoMessage", "ConnectionError", "TimeoutError",
                "Exception", "KeyboardInterrupt"}

E(e) == [ev |-> e, n |-> 0]
EN(e, k) == [ev |-> e, n |-> k]

Inc(c) == IF c < CountCap THEN c + 1 ELSE CountCap

(* ---------------- initial state ---------------- *)
Init ==
  /\ pc = "main"
  /\ conversation_started = FALSE
  /\ multiline_mode = FALSE
  /\ message = <<>>
  /\ lines = <<>>
  /\ retries \in 0..MaxRetries
  /\ attempt = 0
  /\ results = <<>>
  /\ trace = <<>>
  /\ outcome = "none"
  /\ from_multiline = FALSE
  /\ response = <<>>
  /\ new_sends = 0
  /\ ml_captures = 0
  /\ term = "none"
  /\ raw = <<>>
  /\ start_result = "none"

(* ---------------- decisions taken by the code ---------------- *)
\* line 126 with the test dropped: the loop never starts a conversation
NeedsStartNever(cs) == FALSE

\* flow_conversation, line 126: the start happens when not conversation_started
NeedsStart(cs) == ~cs

\* flow_conversation, line 132: which reader the loop blocks on
InputPc(mm) == IF ~mm THEN "read" ELSE "mlread"

\* line 134 without .lower()
IsToggleExact(m) == m = MultilineToken

\* flow_conversation, line 134
IsToggle(m) == lower(m) = MultilineToken

\* line 54 without .strip()
IsSentinelNoStrip(line) == upper(line) = EndToken

\* get_multiline_message, line 54
IsSentinel(line) == upper(strip(line)) = EndToken

\* line 140 missing: the mode is left as it was
ModeStaysMultiline == TRUE

\* flow_conversation, line 140: the mode after one multiline capture
ModeAfterCapture == FALSE

\* lines 147-148 missing: newchat is ordinary text
KindNoNewChat(m) ==
  IF lower(m) = ExitToken THEN "Exit"
  ELSE IF m # <<>> THEN "Message"
  ELSE "Invalid"

\* line 149 as a plain else: empty text is forwarded
KindForwardsEmpty(m) ==
  IF lower(m) = ExitToken THEN "Exit"
  ELSE IF lower(m) = NewChatToken THEN "NewChat"
  ELSE "Message"

\* lines 149-152 with the two branches exchanged
KindEmptyIsMessage(m) ==
  IF lower(m) = ExitToken THEN "Exit"
  ELSE IF lower(m) = NewChatToken THEN "NewChat"
  ELSE IF m = <<>> THEN "Message"
  ELSE "Invalid"

\* flow_conversation, lines 142-152: the if/elif chain on the captured text
Kind(m) ==
  IF lower(m) = ExitToken THEN "Exit"
  ELSE IF lower(m) = NewChatToken THEN "NewChat"
  ELSE IF m # <<>> THEN "Message"
  ELSE "Invalid"

\* line 143 without .lower()
IsConfirmedExact(r) == r = YesToken

\* flow_conversation, line 143
IsConfirmed(r) == lower(r) = YesToken

\* line 105 off by one: range(1, retries + 2)
AttemptRangeOneMore(n) == 1..(n + 1)

\* process_message, line 105: range(1, retries + 1)
AttemptRange(n) == 1..n

\* line 113 as a bare except: KeyboardInterrupt is swallowed as an error
ClassificationBareExcept(r) ==
  CASE r = "Reply" -> "Success"
    [] r = "NoMessage" -> "Unexpected"
    [] r \in {"ConnectionError", "TimeoutError"} -> "Transient"
    [] r \in {"Exception", "KeyboardInterrupt"} -> "Fatal"

\* lines 113-115 missing: an Exception leaves process_message like an interrupt
ClassificationUncaught(r) ==
  CASE r = "Reply" -> "Success"
    [] r = "NoMessage" -> "Unexpected"
    [] r \in {"ConnectionError", "TimeoutError"} -> "Transient"
    [] r \in {"Exception", "KeyboardInterrupt"} -> "Interrupt"

\* a response without message raises in handle_response and is logged by line 114
ClassificationFormatFatal(r) ==
  CASE r = "Reply" -> "Success"
    [] r \in {"ConnectionError", "TimeoutError"} -> "Transient"
    [] r \in {"NoMessage", "Exception"} -> "Fatal"
    [] r = "KeyboardInterrupt" -> "Interrupt"

\* lines 110-115 with every Exception handled by the retrying branch
ClassificationRetryAll(r) ==
  CASE r = "Reply" -> "Success"
    [] r = "NoMessage" -> "Unexpected"
    [] r \in {"ConnectionError", "TimeoutError", "Exception"} -> "Transient"
    [] r = "KeyboardInterrupt" -> "Interrupt"

\* process_message, lines 106-115: which branch handles the result of a send
Classification(r) ==
  CASE r = "Reply" -> "Success"
    [] r = "NoMessage" -> "Unexpected"
    [] r \in {"ConnectionError", "TimeoutError"} -> "Transient"
    [] r = "Exception" -> "Fatal"
    [] r = "KeyboardInterrupt" -> "Interrupt"

\* line 109 missing: a handled response does not leave the for loop
BreaksOnlyOnError(class) == class = "Fatal"

\* process_message, lines 109 and 115: the branches that end in break
Breaks(class) == class \in {"Success", "Unexpected", "Fatal"}

\* line 100 narrowed to the connectivity errors: other exceptions escape
StartCatchesConnectivityOnly(r) == r \in {"ConnectionError", "TimeoutError"}

\* start_new_conversation, line 100: except Exception
StartCatches(r) == r \in {"ConnectionError", "TimeoutError", "Exception"}

\* handle_response, lines 69-76
HandleResponse(r) == IF r = "Reply" THEN E("render") ELSE E("unexpected_format")

(* ---------------- main ---------------- *)
MainInit ==
  /\ pc = "main"
  /\ \E r \in {"ok", "Exception", "KeyboardInterrupt"} :
       CASE r = "ok" ->
              /\ pc' = "top"
              /\ UNCHANGED <<trace, term>>
         [] r = "Exception" ->
              /\ pc' = "finally"
              /\ trace' = Append(trace, E("error_init"))
              /\ term' = "initfail"
         [] r = "KeyboardInterrupt" ->
              /\ pc' = "finally"
              /\ trace' = Append(trace, E("shutdown_notice"))
              /\ term' = "interrupt_main"
  /\ UNCHANGED <<raw, start_result, conversation_started, multiline_mode, message, lines, retries,
                 attempt, results, outcome, from_multiline, response,
                 new_sends, ml_captures>>

MainFinally ==
  /\ pc = "finally"
  /\ pc' = "exited"
  /\ trace' = Append(trace, E("goodbye"))
  /\ UNCHANGED <<raw, start_result, conversation_started, multiline_mode, message, lines, retries,
                 attempt, results, outcome, from_multiline, response,
                 new_sends, ml_captures, term>>

(* ---------------- flow_conversation ---------------- *)
\* head of the while loop; the per-iteration record (trace, results, outcome)
\* and the locals that are reassigned before their next use (message, the
\* confirmation response, the lines list of get_multiline_message) are cleared;
\* raw is the line input() returned to get_message("Your message: ") and
\* start_result what api.prompt did in start_new_conversation
LoopTop ==
  /\ pc = "top"
  /\ pc' = IF NeedsStart(conversation_started) THEN "start"
           ELSE InputPc(multiline_mode)
  /\ trace' = <<>>
  /\ results' = <<>>
  /\ outcome' = "none"
  /\ attempt' = 0
  /\ message' = <<>>
  /\ response' = <<>>
  /\ from_multiline' = FALSE
  /\ lines' = <<>>
  /\ raw' = <<>>
  /\ start_result' = "none"
  /\ UNCHANGED <<conversation_started, multiline_mode, retries,
                 new_sends, ml_captures, term>>

\* start_new_conversation wrapped in the retry policy: a connectivity error
\* makes the loop send the opening prompt again
StartNewConversationRetrying ==
  /\ pc = "start"
  /\ \E r \in SendResults :
       /\ new_sends' = Inc(new_sends)
       /\ start_result' = r
       /\ IF r \in {"Reply", "NoMessage"}
          THEN /\ trace' = trace \o <<E("send_new"), HandleResponse(r)>>
               /\ conversation_started' = TRUE
               /\ pc' = InputPc(multiline_mode)
               /\ UNCHANGED term
          ELSE IF r \in {"ConnectionError", "TimeoutError"}
          THEN /\ trace' = trace \o <<E("send_new"), E("error_start")>>
               /\ pc' = "start"
               /\ UNCHANGED <<conversation_started, term>>
          ELSE IF StartCatches(r)
          THEN /\ trace' = trace \o <<E("send_new"), E("error_start")>>
               /\ conversation_started' = TRUE
               /\ pc' = InputPc(multiline_mode)
               /\ UNCHANGED term
          ELSE /\ trace' = trace \o <<E("send_new"), E("interrupt_notice")>>
               /\ pc' = "finally"
               /\ term' = "interrupt"
               /\ UNCHANGED conversation_started
  /\ UNCHANGED <<raw, multiline_mode, message, lines, retries, attempt, results,
                 outcome, from_multiline, response, ml_captures>>

\* start_new_conversation and the assignment of line 130
StartNewConversation ==
  /\ pc = "start"
  /\ \E r \in SendResults :
       /\ new_sends' = Inc(new_sends)
       /\ start_result' = r
       /\ IF r \in {"Reply", "NoMessage"}
          THEN /\ trace' = trace \o <<E("send_new"), HandleResponse(r)>>
               /\ conversation_started' = TRUE
               /\ pc' = InputPc(multiline_mode)
               /\ UNCHANGED term
          ELSE IF StartCatches(r)
          THEN /\ trace' = trace \o <<E("send_new"), E("error_start")>>
               /\ conversation_started' = TRUE
               /\ pc' = InputPc(multiline_mode)
               /\ UNCHANGED term
          ELSE /\ trace' = trace \o <<E("send_new"), E("interrupt_notice")>>
               /\ pc' = "finally"
               /\ term' = "interrupt"
               /\ UNCHANGED conversation_started
  /\ UNCHANGED <<raw, multiline_mode, message, lines, retries, attempt, results,
                 outcome, from_multiline, response, ml_captures>>

\* get_message("Your message: ") and the multiline test of lines 133-137
ReadLine ==
  /\ pc = "read"
  /\ \E line \in Lines :
       /\ raw' = line
       /\ message' = strip(line)
       /\ IF IsToggle(strip(line))
          THEN /\ multiline_mode' = TRUE
               /\ trace' = trace \o <<E("read"), E("toggle_notice")>>
               /\ ml_captures' = 0
               /\ pc' = "top"
          ELSE /\ trace' = Append(trace, E("read"))
               /\ pc' = "classify"
               /\ UNCHANGED <<multiline_mode, ml_captures>>
  /\ UNCHANGED <<start_result, conversation_started, lines, retries, attempt, results,
                 outcome, from_multiline, response, new_sends, term>>

\* one input() of get_multiline_message; at the sentinel the function returns
\* and line 140 runs
MultilineLine ==
  /\ pc = "mlread"
  /\ \E line \in Lines :
       IF IsSentinel(line)
       THEN /\ message' = strip(join(lines))
            /\ multiline_mode' = ModeAfterCapture
            /\ from_multiline' = TRUE
            /\ ml_captures' = Inc(ml_captures)
            /\ trace' = Append(trace, E("capture"))
            /\ pc' = "classify"
            /\ UNCHANGED lines
       ELSE /\ line \in BodyLines
            /\ Len(lines) < MaxLines
            /\ lines' = Append(lines, line)
            /\ UNCHANGED <<message, multiline_mode, from_multiline,
                           ml_captures, trace, pc>>
  /\ UNCHANGED <<raw, start_result, conversation_started, retries, attempt, results, outcome,
                 response, new_sends, term>>

\* the for loop of process_message moves on to attempt k, or runs out and the
\* else clause of line 117 reports; tr is what has been printed so far
Iterate(k, tr) ==
  IF k \in AttemptRange(retries)
  THEN /\ attempt' = k
       /\ pc' = "send"
       /\ trace' = tr
       /\ UNCHANGED outcome
  ELSE /\ trace' = Append(tr, EN("error_exhausted", retries))
       /\ outcome' = "Exhausted"
       /\ pc' = "top"
       /\ UNCHANGED attempt

\* the if/elif chain of lines 142-152
Classify ==
  /\ pc = "classify"
  /\ CASE Kind(message) = "Exit" ->
            /\ pc' = "confirm"
            /\ trace' = Append(trace, E("confirm_prompt"))
            /\ UNCHANGED <<conversation_started, new_sends, attempt, outcome>>
       [] Kind(message) = "NewChat" ->
            /\ conversation_started' = FALSE
            /\ new_sends' = 0
            /\ pc' = "top"
            /\ UNCHANGED <<trace, attempt, outcome>>
       [] Kind(message) = "Message" ->
            /\ Iterate(1, Append(trace, E("process_message")))
            /\ UNCHANGED <<conversation_started, new_sends>>
       [] Kind(message) = "Invalid" ->
            /\ trace' = Append(trace, E("invalid"))
            /\ outcome' = "Invalid"
            /\ pc' = "top"
            /\ UNCHANGED <<conversation_started, new_sends, attempt>>
  /\ UNCHANGED <<raw, start_result, multiline_mode, message, lines, retries, results,
                 from_multiline, response, ml_captures, term>>

\* the confirmation read of line 143 and lines 144-146
Confirm ==
  /\ pc = "confirm"
  /\ \E line \in Lines :
       /\ response' = strip(line)
       /\ IF IsConfirmed(strip(line))
          THEN /\ trace' = trace \o <<E("confirm_read"), E("ending")>>
               /\ pc' = "finally"
               /\ term' = "exit"
          ELSE /\ trace' = Append(trace, E("confirm_read"))
               /\ pc' = "top"
               /\ UNCHANGED term
  /\ UNCHANGED <<raw, start_result, conversation_started, multiline_mode, message, lines, retries,
                 attempt, results, outcome, from_multiline, new_sends,
                 ml_captures>>

(* ---------------- process_message ---------------- *)
\* one iteration of the for loop up to the sleep or the break
SendAttempt ==
  /\ pc = "send"
  /\ \E r \in SendResults :
       LET class == Classification(r)
           sent == Append(trace, EN("send", attempt))
       IN /\ results' = Append(results, r)
          /\ CASE class = "Interrupt" ->
                    /\ trace' = Append(sent, E("interrupt_notice"))
                    /\ pc' = "finally"
                    /\ term' = "interrupt"
                    /\ UNCHANGED <<attempt, outcome>>
               [] class = "Transient" ->
                    /\ trace' = Append(sent, EN("warning", attempt))
                    /\ pc' = "sleep"
                    /\ UNCHANGED <<attempt, outcome, term>>
               [] class \in {"Success", "Unexpected", "Fatal"} ->
                    LET shown == IF class = "Fatal"
                                 THEN Append(sent, E("error_fatal"))
                                 ELSE Append(sent, HandleResponse(r))
                    IN IF Breaks(class)
                       THEN /\ trace' = shown
                            /\ outcome' = class
                            /\ pc' = "top"
                            /\ UNCHANGED <<attempt, term>>
                       ELSE /\ Iterate(attempt + 1, shown)
                            /\ UNCHANGED term
  /\ UNCHANGED <<raw, start_result, conversation_started, multiline_mode, message, lines, retries,
                 from_multiline, response, new_sends, ml_captures>>

\* line 112 guarded by attempt < retries: no sleep after the last attempt
SleepNotAfterLast ==
  /\ pc = "sleep"
  /\ Iterate(attempt + 1, IF attempt < retries
                          THEN Append(trace, E("sleep")) ELSE trace)
  /\ UNCHANGED <<raw, start_result, conversation_started, multiline_mode,
                 message, lines, retries, results, from_multiline, response,
                 new_sends, ml_captures, term>>

\* time.sleep(delay) of line 112 returns and the for loop goes on
Sleep ==
  /\ pc = "sleep"
  /\ Iterate(attempt + 1, Append(trace, E("sleep")))
  /\ UNCHANGED <<raw, start_result, conversation_started, multiline_mode, message, lines, retries,
                 results, from_multiline, response, new_sends, ml_captures,
                 term>>

(* ---------------- signals and end of input ---------------- *)
\* KeyboardInterrupt while blocked in input() or time.sleep(); caught at line 153
Interrupt ==
  /\ pc \in {"read", "mlread", "confirm", "sleep"}
  /\ trace' = Append(trace, E("interrupt_notice"))
  /\ pc' = "finally"
  /\ term' = "interrupt"
  /\ UNCHANGED <<raw, start_result, conversation_started, multiline_mode, message, lines, retries,
                 attempt, results, outcome, from_multiline, response,
                 new_sends, ml_captures>>

\* input() raises EOFError: not caught in flow_conversation, caught by the
\* except Exception of main (line 169)
InputEOF ==
  /\ pc \in {"read", "mlread", "confirm"}
  /\ trace' = Append(trace, E("error_init"))
  /\ pc' = "finally"
  /\ term' = "eof"
  /\ UNCHANGED <<raw, start_result, conversation_started, multiline_mode, message, lines, retries,
                 attempt, results, outcome, from_multiline, response,
                 new_sends, ml_captures>>

Next ==
  \/ MainInit
  \/ MainFinally
  \/ LoopTop
  \/ StartNewConversation
  \/ ReadLine
  \/ MultilineLine
  \/ Classify
  \/ Confirm
  \/ SendAttempt
  \/ Sleep
  \/ Interrupt
  \/ InputEOF

Spec == Init /\ [][Next]_vars

(* ---------------- reading the record of one loop iteration ---------------- *)
IsConnectivity(r) == r \in {"ConnectionError", "TimeoutError"}

Last(q) == q[Len(q)]

Count(tr, e) == Cardinality({i \in 1..Len(tr) : tr[i].ev = e})

\* index of the process_message entry in trace, 0 when it was not called
CallIndex ==
  IF \E i \in 1..Len(trace) : trace[i].ev = "process_message"
  THEN CHOOSE i \in 1..Len(trace) : trace[i].ev = "process_message"
  ELSE 0

\* what process_message has done so far in this iteration
DeliveryTrace ==
  IF CallIndex = 0 THEN <<>> ELSE SubSeq(trace, CallIndex + 1, Len(trace))

\* the record of k failed attempts: send, warning, sleep for 1..k
RECURSIVE FailedAttempts(_)
FailedAttempts(k) ==
  IF k = 0 THEN <<>>
  ELSE FailedAttempts(k - 1) \o <<EN("send", k), EN("warning", k), E("sleep")>>

\* process_message has returned to the loop in this iteration
Returned == pc = "top" /\ CallIndex > 0

(* ---------------- C1 ---------------- *)
\* C1: for retries n >= 1, when every send attempt fails with ConnectionError
\* or TimeoutError, process_message makes exactly the attempts 1..n, each
\* followed by its warning, and then reports "unable to obtain a valid
\* response after n attempts"; there is never an (n+1)-th attempt and the
\* call never returns before the n-th.
C1_ExactlyRetriesAttempts ==
  /\ Len(results) <= retries
  /\ (retries >= 1 /\ Returned /\ \A i \in 1..Len(results) : IsConnectivity(results[i]))
       => /\ Len(results) = retries
          /\ outcome = "Exhausted"
          /\ DeliveryTrace = Append(FailedAttempts(retries),
                                    EN("error_exhausted", retries))

C1_Witness ==
  /\ Returned
  /\ retries = MaxRetries
  /\ Len(results) = MaxRetries
  /\ \A i \in 1..Len(results) : IsConnectivity(results[i])
  /\ outcome = "Exhausted"

(* ---------------- C2 ---------------- *)
\* C2: when attempts 1..k-1 fail with a connectivity failure and attempt k
\* returns a reply, process_message makes exactly k sends, renders the reply
\* once, reports Success and not Exhausted, and no attempt follows the
\* successful one.
C2_SuccessStopsAtK ==
  /\ \A i \in 1..(Len(results) - 1) : results[i] # "Reply"
  /\ (results # <<>> /\ Last(results) = "Reply"
      /\ \A i \in 1..(Len(results) - 1) : IsConnectivity(results[i]))
       => /\ Returned
          /\ outcome = "Success"
          /\ DeliveryTrace = FailedAttempts(Len(results) - 1)
                               \o <<EN("send", Len(results)), E("render")>>

C2_Witness ==
  /\ Returned
  /\ results = <<"ConnectionError", "Reply">>
  /\ retries = MaxRetries
  /\ outcome = "Success"

(* ---------------- C3 ---------------- *)
\* C3: a send that fails with a failure that is not connectivity-class ends
\* the delivery at that attempt: no later attempt is made even when attempts
\* remain, the failure is logged as an error (Fatal) and Exhausted is not
\* reported.
C3_FatalAborts ==
  /\ \A i \in 1..(Len(results) - 1) : results[i] # "Exception"
  /\ (results # <<>> /\ Last(results) = "Exception")
       => /\ Returned
          /\ outcome = "Fatal"
          /\ Last(trace) = E("error_fatal")
          /\ Count(DeliveryTrace, "send") = Len(results)
          /\ Count(DeliveryTrace, "error_exhausted") = 0

C3_Witness ==
  /\ Returned
  /\ results = <<"Exception">>
  /\ retries = MaxRetries
  /\ outcome = "Fatal"

(* ---------------- C4 ---------------- *)
\* C4: user input is read, classified and forwarded only while
\* conversation_started is true, and a start-new-conversation send has been
\* made since process start or the most recent NewChat reset.
C4_StartedBeforeForward ==
  pc \in {"read", "mlread", "classify", "confirm", "send", "sleep"}
    => conversation_started /\ new_sends >= 1

C4_Witness ==
  /\ pc = "send"
  /\ conversation_started
  /\ new_sends = 1
  /\ Count(trace, "send_new") = 0

(* ---------------- C5 ---------------- *)
\* C5 as stated: every non-empty block captured in Multiline mode, also one
\* equal to exit or newchat, is forwarded to delivery as a Message: no exit
\* confirmation, no reset, no mode toggle.
C5_BlockAlwaysMessage ==
  (from_multiline /\ pc # "classify" /\ message # <<>>)
    => /\ CallIndex > 0
       /\ conversation_started
       /\ ~multiline_mode
       /\ Count(trace, "confirm_prompt") = 0

\* C5 amended: of the command tokens only multiline is not recognized in a
\* captured block.  A non-empty block that is not exit or newchat (so also the
\* block multiline) is forwarded to delivery with no mode toggle; a block equal
\* to exit opens the exit confirmation and a block equal to newchat resets the
\* conversation, as in SingleLine mode.
C5_BlockCommands ==
  (from_multiline /\ pc # "classify" /\ message # <<>>)
    => /\ ~multiline_mode
       /\ lower(message) = ExitToken
            => /\ CallIndex = 0
               /\ Count(trace, "confirm_prompt") = 1
               /\ conversation_started
       /\ lower(message) = NewChatToken
            => /\ CallIndex = 0
               /\ pc = "top"
               /\ ~conversation_started
               /\ Count(trace, "confirm_prompt") = 0
       /\ lower(message) \notin {ExitToken, NewChatToken}
            => /\ CallIndex > 0
               /\ conversation_started
               /\ Count(trace, "confirm_prompt") = 0

C5_Witness ==
  /\ from_multiline
  /\ lines = << <<"N","e","w","C","h","a","t">> >>
  /\ pc = "top"
  /\ ~conversation_started

(* ---------------- C6 ---------------- *)
\* C6 as stated: a multiline block that is empty after trimming is still
\* delivered: process_message is called for it and no invalid-input notice is
\* shown.
C6_EmptyBlockDelivered ==
  (from_multiline /\ pc # "classify" /\ message = <<>>)
    => /\ CallIndex > 0
       /\ Count(trace, "invalid") = 0

\* C6 amended: a multiline block that is empty after trimming is not
\* delivered; it is treated as Invalid input like an empty single line: the
\* invalid-input notice is shown, no send is made and the loop goes on.
C6_EmptyBlockInvalid ==
  (from_multiline /\ pc # "classify" /\ message = <<>>)
    => /\ pc = "top"
       /\ outcome = "Invalid"
       /\ Last(trace) = E("invalid")
       /\ CallIndex = 0
       /\ results = <<>>
       /\ Count(trace, "send") = 0
       /\ conversation_started
       /\ term = "none"

C6_Witness ==
  /\ from_multiline
  /\ lines = << <<" ">>, <<>> >>
  /\ message = <<>>
  /\ pc = "top"
  /\ outcome = "Invalid"

(* ---------------- C7 ---------------- *)
\* C7: the mode is SingleLine again as soon as one multiline block has been
\* captured, before it is classified or delivered and whatever the delivery
\* outcome; a multiline capture happens only in Multiline mode and at most
\* one capture happens per ToggleMultiline command.
C7_ModeReverts ==
  /\ pc \in {"classify", "confirm", "send", "sleep"} => ~multiline_mode
  /\ from_multiline => ~multiline_mode
  /\ pc = "mlread" => multiline_mode /\ ml_captures = 0
  /\ ml_captures <= 1

C7_Witness ==
  /\ from_multiline
  /\ Returned
  /\ outcome = "Exhausted"
  /\ ml_captures = 1
  /\ ~multiline_mode

(* ---------------- C8 ---------------- *)
\* the confirmation prompt has been answered in this iteration
Answered == Count(trace, "confirm_read") = 1

\* C8: after an Exit command the loop terminates if and only if the trimmed
\* confirmation response equals yes case-insensitively; any other response
\* returns to the loop head with the conversation started, SingleLine mode,
\* no send, no reset and no classification of the response.
C8_ExitGated ==
  /\ term = "exit" => Answered /\ lower(response) = YesToken
  /\ (Answered /\ lower(response) = YesToken)
       => /\ term = "exit"
          /\ pc \in {"finally", "exited"}
  /\ (Answered /\ lower(response) # YesToken)
       => /\ pc = "top"
          /\ term = "none"
          /\ Last(trace) = E("confirm_read")
          /\ conversation_started
          /\ ~multiline_mode
          /\ new_sends = 1
          /\ CallIndex = 0
          /\ results = <<>>

C8_Witness ==
  /\ Answered
  /\ lower(response) = NewChatToken
  /\ pc = "top"
  /\ conversation_started

(* ---------------- C9 ---------------- *)
\* C9: a KeyboardInterrupt at a send attempt, a conversation start, an input
\* read or a retry sleep ends the loop at once: the interrupt notice is the
\* last thing the loop prints, nothing is sent, read or retried after it,
\* and the only thing that follows is the farewell of main.
C9_InterruptTerminates ==
  /\ \A i \in 1..Len(results) :
       results[i] = "KeyboardInterrupt" => i = Len(results) /\ term = "interrupt"
  /\ Count(trace, "interrupt_notice") >= 1 => term = "interrupt"
  /\ term = "interrupt"
       => /\ pc \in {"finally", "exited"}
          /\ Count(trace, "interrupt_notice") = 1
          /\ pc = "finally" => Last(trace) = E("interrupt_notice")
          /\ pc = "exited"
               => /\ Last(trace) = E("goodbye")
                  /\ trace[Len(trace) - 1] = E("interrupt_notice")

C9_Witness ==
  /\ pc = "exited"
  /\ term = "interrupt"
  /\ results = <<"ConnectionError">>
  /\ retries = MaxRetries
  /\ trace[Len(trace) - 2] = EN("warning", 1)

(* ---------------- C10 ---------------- *)
\* the session as it must be after a failed delivery
SessionKept ==
  /\ pc = "top"
  /\ term = "none"
  /\ conversation_started
  /\ ~multiline_mode
  /\ new_sends = 1
  /\ Count(DeliveryTrace, "send_new") = 0

\* C10: a delivery that ends with a non-connectivity failure or with all
\* retries consumed leaves the session as it was: conversation_started true,
\* SingleLine mode, loop not terminated, no new-conversation send; the next
\* step of the loop is the single-line read.
C10_FailureKeepsSession ==
  /\ [](/\ (results # <<>> /\ Last(results) = "Exception") => SessionKept
        /\ outcome = "Exhausted" => SessionKept)
  /\ [][(pc = "top" /\ outcome \in {"Fatal", "Exhausted"}) => pc' = "read"]_vars

C10_Witness ==
  /\ Returned
  /\ outcome = "Fatal"
  /\ results = <<"ConnectionError", "Exception">>
  /\ from_multiline
  /\ conversation_started

(* ---------------- C11 ---------------- *)
\* the send of start_new_conversation raised something other than an interrupt
StartFailed == start_result \in {"ConnectionError", "TimeoutError", "Exception"}

\* C11: when the start-new-conversation send fails with anything but an
\* interrupt, the failure is logged, conversation_started becomes true, the
\* loop goes on to the single-line read, and the start is made once: it is not
\* made again before a NewChat reset.
C11_FailedStartProceeds ==
  /\ new_sends <= 1
  /\ StartFailed
       => /\ SubSeq(trace, 1, 2) = <<E("send_new"), E("error_start")>>
          /\ Count(trace, "send_new") = 1
          /\ conversation_started \/ (pc = "top" /\ lower(message) = NewChatToken)
          /\ Len(trace) = 2
               => /\ pc = "read"
                  /\ term = "none"
                  /\ conversation_started

C11_Witness ==
  /\ start_result = "Exception"
  /\ pc = "send"
  /\ conversation_started
  /\ new_sends = 1

(* ---------------- C12 ---------------- *)
\* C12: a reply without the message field ends the delivery like a success:
\* the unexpected-format notice is shown, no send follows it (a first-attempt
\* reply of that kind gives exactly one send and no sleep), neither the fatal
\* nor the exhausted error is logged, and the session is as it was.
C12_UnexpectedFormatNoFailure ==
  /\ \A i \in 1..(Len(results) - 1) : results[i] # "NoMessage"
  /\ (results # <<>> /\ Last(results) = "NoMessage")
       => /\ Returned
          /\ outcome = "Unexpected"
          /\ Last(trace) = E("unexpected_format")
          /\ Count(DeliveryTrace, "send") = Len(results)
          /\ Count(DeliveryTrace, "error_fatal") = 0
          /\ Count(DeliveryTrace, "error_exhausted") = 0
          /\ conversation_started
          /\ ~multiline_mode
          /\ term = "none"
          /\ new_sends = 1
  /\ results = <<"NoMessage">>
       => DeliveryTrace = <<EN("send", 1), E("unexpected_format")>>

C12_Witness ==
  /\ Returned
  /\ results = <<"NoMessage">>
  /\ retries = MaxRetries
  /\ outcome = "Unexpected"

(* ---------------- C13 ---------------- *)
\* C13: whenever conversation_started is false the mode is SingleLine, and
\* the input read that follows a conversation start is the single-line read.
C13_ResetIsSingleLine ==
  /\ [](~conversation_started => ~multiline_mode)
  /\ [][(pc = "start" /\ pc' # "start" /\ term' = "none") => pc' = "read"]_vars

C13_Witness ==
  /\ pc = "top"
  /\ ~conversation_started
  /\ ~multiline_mode
  /\ from_multiline
  /\ ml_captures = 1

(* ---------------- C14 ---------------- *)
\* t is s without its leading and trailing whitespace
IsTrimOf(t, s) ==
  /\ t = <<>> \/ (~IsSpace(t[1]) /\ ~IsSpace(t[Len(t)]))
  /\ Len(t) <= Len(s)
  /\ \E i \in 0..(Len(s) - Len(t)) :
       /\ \A k \in 1..i : IsSpace(s[k])
       /\ \A k \in (i + Len(t) + 1)..Len(s) : IsSpace(s[k])
       /\ t = SubSeq(s, i + 1, i + Len(t))

\* a and b are equal up to letter case
SameIgnoringCase(a, b) ==
  /\ Len(a) = Len(b)
  /\ \A i \in 1..Len(a) : ToLower(a[i]) = ToLower(b[i])

\* a line has been read by get_message("Your message: ") in this iteration
SingleRead == Count(trace, "read") = 1

\* C14: for a line read in SingleLine mode with t its trimmed value: t empty
\* gives the invalid-input notice; t equal (any case) to exit, newchat or
\* multiline gives the confirmation prompt, the reset or the mode toggle;
\* every other t, END included, is passed to process_message as it is.
C14_SingleLineClassification ==
  SingleRead
    => /\ IsTrimOf(message, raw)
       /\ ~from_multiline
       /\ pc # "classify"
            => /\ message = <<>>
                    => /\ outcome = "Invalid"
                       /\ Last(trace) = E("invalid")
                       /\ CallIndex = 0
               /\ SameIgnoringCase(message, ExitToken)
                    => /\ Count(trace, "confirm_prompt") = 1
                       /\ CallIndex = 0
               /\ SameIgnoringCase(message, NewChatToken)
                    => /\ pc = "top"
                       /\ ~conversation_started
                       /\ CallIndex = 0
               /\ SameIgnoringCase(message, MultilineToken)
                    => /\ pc = "top"
                       /\ multiline_mode
                       /\ Last(trace) = E("toggle_notice")
                       /\ CallIndex = 0
               /\ (/\ message # <<>>
                   /\ ~SameIgnoringCase(message, ExitToken)
                   /\ ~SameIgnoringCase(message, NewChatToken)
                   /\ ~SameIgnoringCase(message, MultilineToken))
                    => /\ CallIndex > 0
                       /\ Count(trace, "confirm_prompt") = 0
                       /\ Count(trace, "invalid") = 0
                       /\ conversation_started
                       /\ ~multiline_mode

C14_Witness ==
  /\ SingleRead
  /\ raw = <<" ","h"," ","i"," ">>
  /\ message = <<"h"," ","i">>
  /\ pc = "send"

(* ---------------- C15 ---------------- *)
\* the line is the sentinel: its trimmed value is END in any letter case
SentinelLine(line) ==
  \E i \in 0..(Len(line) - Len(EndToken)) :
    LET t == SubSeq(line, i + 1, i + Len(EndToken))
    IN IsTrimOf(t, line) /\ SameIgnoringCase(t, EndToken)

\* where line k starts in the text of ls joined by newlines (0-based)
RECURSIVE Offset(_, _)
Offset(ls, k) == IF k = 1 THEN 0 ELSE Offset(ls, k - 1) + Len(ls[k - 1]) + 1

\* j is the lines ls in order with one newline between neighbours
IsJoinOf(j, ls) ==
  IF ls = <<>> THEN j = <<>>
  ELSE /\ Len(j) = Offset(ls, Len(ls)) + Len(ls[Len(ls)])
       /\ \A k \in 1..Len(ls) :
            /\ SubSeq(j, Offset(ls, k) + 1, Offset(ls, k) + Len(ls[k])) = ls[k]
            /\ k < Len(ls) => j[Offset(ls, k) + Len(ls[k]) + 1] = "\n"

\* C15: get_multiline_message stops at the first sentinel line: no
\* accumulated line is a sentinel, no line is read by it after the
\* sentinel, and the returned text is the accumulated lines
\* joined by newline in order, trimmed at the outer edges only; it never
\* equals the sentinel.
C15_MultilineCapture ==
  /\ \A i \in 1..Len(lines) : ~SentinelLine(lines[i])
  /\ from_multiline
       => /\ IsJoinOf(join(lines), lines)
          /\ IsTrimOf(message, join(lines))
          /\ ~SameIgnoringCase(message, EndToken)
          /\ pc # "mlread"
          /\ Count(trace, "capture") = 1

C15_Witness ==
  /\ from_multiline
  /\ lines = << <<" ","h"," ","i"," ">>, <<>>, <<"e","x","i","t">> >>
  /\ message = <<"h"," ","i"," ","\n","\n","e","x","i","t">>
  /\ pc = "send"

(* ---------------- C16 ---------------- *)
\* the line read in SingleLine mode is empty or all whitespace
BlankRead == SingleRead /\ \A i \in 1..Len(raw) : IsSpace(raw[i])

\* C16: an empty or blank line in SingleLine mode only gets the
\* invalid-input notice: nothing is sent, conversation_started and the mode
\* are unchanged, the loop goes on and its next step is the single-line read.
C16_InvalidInputFrame ==
  /\ [](BlankRead /\ pc # "classify"
          => /\ pc = "top"
             /\ outcome = "Invalid"
             /\ Last(trace) = E("invalid")
             /\ Count(trace, "send") = 0
             /\ CallIndex = 0
             /\ results = <<>>
             /\ conversation_started
             /\ ~multiline_mode
             /\ new_sends = 1
             /\ term = "none")
  /\ [][(BlankRead /\ pc = "top") => pc' = "read"]_vars

C16_Witness ==
  /\ SingleRead
  /\ raw = <<" ">>
  /\ pc = "top"
  /\ outcome = "Invalid"

(* ---------------- C17 ---------------- *)
\* the line read in SingleLine mode is the multiline token in any letter case
ToggleRead ==
  /\ SingleRead
  /\ \E i \in 0..(Len(raw) - Len(MultilineToken)) :
       LET t == SubSeq(raw, i + 1, i + Len(MultilineToken))
       IN IsTrimOf(t, raw) /\ SameIgnoringCase(t, MultilineToken)

\* C17: the multiline token in SingleLine mode switches the mode to Multiline
\* and does nothing else: it is not passed to process_message, nothing is
\* sent, conversation_started stays true, and the next input read is the
\* multiline capture.
C17_ToggleOnly ==
  /\ [](ToggleRead
          => /\ pc = "top"
             /\ multiline_mode
             /\ Last(trace) = E("toggle_notice")
             /\ Count(trace, "send") = 0
             /\ CallIndex = 0
             /\ results = <<>>
             /\ outcome = "none"
             /\ conversation_started
             /\ new_sends = 1
             /\ term = "none")
  /\ [][ToggleRead => pc' = "mlread"]_vars

C17_Witness ==
  /\ pc = "mlread"
  /\ multiline_mode
  /\ conversation_started
  /\ lines = <<>>
  /\ trace = <<>>

(* ---------------- C18 ---------------- *)
\* C18 as stated: once the loop has been entered it ends only by a confirmed
\* exit or by an interrupt; no other failure leaves flow_conversation.
C18_LoopEndsOnlyTerminated ==
  (pc \in {"finally", "exited"} /\ term \notin {"initfail", "interrupt_main"})
    => term \in {"exit", "interrupt"}

(* ---------------- C19 ---------------- *)
\* C19: every entry into the conversation makes exactly one new-conversation
\* send, which is not repeated whatever it returns, and process_message only
\* makes ordinary sends.
C19_StartNotRetried ==
  /\ Count(trace, "send_new") <= 1
  /\ new_sends <= 1
  /\ start_result # "none" => pc # "start" /\ Count(trace, "send_new") = 1
  /\ pc \in {"read", "mlread", "classify", "confirm", "send", "sleep"}
       => new_sends = 1
  /\ Count(DeliveryTrace, "send_new") = 0
  /\ Count(trace, "send") = Len(results)

C19_Witness ==
  /\ start_result = "TimeoutError"
  /\ Count(trace, "send_new") = 1
  /\ Count(trace, "send") = 2
  /\ new_sends = 1

(* ---------------- C20 ---------------- *)
\* the connectivity failures among the results of this call
Transients == Cardinality({i \in 1..Len(results) : IsConnectivity(results[i])})

\* C20: every connectivity failure of process_message is followed by one
\* sleep, the one of the last attempt included: when the call returns the
\* sleeps are as many as the connectivity failures, every sleep comes right
\* after a warning, and the exhausted error of a call that made attempts
\* comes right after a sleep.
C20_SleepAfterEveryTransient ==
  /\ Returned => Count(DeliveryTrace, "sleep") = Transients
  /\ pc = "sleep"
       => /\ Last(trace) = EN("warning", attempt)
          /\ Count(DeliveryTrace, "sleep") = Transients - 1
  /\ \A i \in 1..Len(trace) :
       /\ trace[i].ev = "sleep" => i > 1 /\ trace[i - 1].ev = "warning"
       /\ (trace[i].ev = "error_exhausted" /\ retries >= 1)
            => i > 1 /\ trace[i - 1].ev = "sleep"

C20_Witness ==
  /\ Returned
  /\ outcome = "Exhausted"
  /\ Count(DeliveryTrace, "sleep") = MaxRetries
  /\ trace[Len(trace) - 1] = E("sleep")

TypeOK ==
  /\ pc \in {"main", "top", "start", "read", "mlread", "classify", "confirm",
             "send", "sleep", "finally", "exited"}
  /\ conversation_started \in BOOLEAN
  /\ multiline_mode \in BOOLEAN
  /\ retries \in 0..MaxRetries
  /\ attempt \in 0..MaxRetries
  /\ Len(lines) <= MaxLines
  /\ Len(results) <= MaxRetries
  /\ new_sends \in 0..CountCap
  /\ ml_captures \in 0..CountCap
====
